---------------------------- MODULE Spec2Model ----------------------------
(***************************************************************************)
(* A model of the AVL tree of include/avl.hpp (template class AVL<T>, with *)
(* T = int).  A tree is a value: nullptr is the empty tuple, a TreeNode is *)
(* a record [data, left, right, height] whose left and right fields are    *)
(* trees again (a node exclusively owns its children, so sharing and       *)
(* cycles cannot occur and a value models the heap exactly).  The private  *)
(* recursive helpers take a TreeNode*& and rebind it; here they return the *)
(* new value of that slot together with their return value and a log of    *)
(* what balance() did.                                                     *)
(***************************************************************************)
EXTENDS Integers, Sequences, FiniteSets

VARIABLES
    root,    \* AVL::root
    last,    \* the last public call: its name, argument, result and log
    S,       \* the abstract set the tree is meant to implement
    script,  \* the calls a scripted run still has to make
    done,    \* the calls a scripted run has made, with their results
    draining \* whether a draining run has begun to remove the elements

vars == <<root, last, S, script, done, draining>>

\* The values of T the calls of the free-running specification draw from.
NumValues == 7

Values == 1..NumValues

\* The values of T the calls of a draining run draw from.
NumDrainValues == 6

DrainValues == 1..NumDrainValues

\* The values of T the scripted scenarios draw from: 10, 20, ..., 80.
NumScenarioValues == 8

ScenarioValues == {10 * k : k \in 1..NumScenarioValues}

nullptr == <<>>

\* The set of the elements of a sequence.
Range(seq) == {seq[i] : i \in 1..Len(seq)}

max(a, b) == IF a < b THEN b ELSE a

abs(a) == IF a < 0 THEN -a ELSE a

\* TreeNode::TreeNode(const T& value)
TreeNode(value) ==
    [data |-> value, left |-> nullptr, right |-> nullptr, height |-> 1]

\* int AVL::height(TreeNode* node) const
height(node) == IF node = nullptr THEN -1 ELSE node.height

\* UpdateHeight with the "+ 1" forgotten.
UpdateHeight_noPlusOne(n) ==
    [n EXCEPT !.height = max(height(n.left), height(n.right))]

\* The statement  n->height = std::max(height(n->left), height(n->right)) + 1
UpdateHeight(n) ==
    [n EXCEPT !.height = max(height(n.left), height(n.right)) + 1]

\* DoubleLeftRight handing over the wrong subtree of the grandchild:
\* leftChild->right = leftRightChild->right.
DoubleLeftRight_wrongSubtree(node) ==
    LET leftChild      == node.left
        leftRightChild == leftChild.right
        leftChild2     == [leftChild EXCEPT !.right = leftRightChild.right]
        leftRightChild2 == [leftRightChild EXCEPT !.left = leftChild2]
    IN  [node EXCEPT !.left = leftRightChild2]

\* The left-right step of balance(): the left child is rotated left below
\* node.  No height field is written.
DoubleLeftRight(node) ==
    LET leftChild      == node.left
        leftRightChild == leftChild.right
        leftChild2     == [leftChild EXCEPT !.right = leftRightChild.left]
        leftRightChild2 == [leftRightChild EXCEPT !.left = leftChild2]
    IN  [node EXCEPT !.left = leftRightChild2]

\* RotateRight without the height update of the new top, leftChild.
RotateRight_noTopUpdate(node) ==
    LET leftChild == node.left
        node2     == UpdateHeight([node EXCEPT !.left = leftChild.right])
    IN  [leftChild EXCEPT !.right = node2]

\* The simple right rotation of balance(), with its two height updates:
\* first the former node, then its former left child, the new top.
RotateRight(node) ==
    LET leftChild == node.left
        node2     == UpdateHeight([node EXCEPT !.left = leftChild.right])
    IN  UpdateHeight([leftChild EXCEPT !.right = node2])

\* The right-left step of balance(), the mirror image of DoubleLeftRight.
DoubleRightLeft(node) ==
    LET rightChild     == node.right
        rightLeftChild == rightChild.left
        rightChild2    == [rightChild EXCEPT !.left = rightLeftChild.right]
        rightLeftChild2 == [rightLeftChild EXCEPT !.right = rightChild2]
    IN  [node EXCEPT !.right = rightLeftChild2]

\* RotateLeft without its last statement, node = rightChild: the slot keeps
\* the former node.
RotateLeft_noRebind(node) ==
    LET rightChild == node.right
    IN  UpdateHeight([node EXCEPT !.right = rightChild.left])

\* The simple left rotation of balance(), the mirror image of RotateRight.
RotateLeft(node) ==
    LET rightChild == node.right
        node2      == UpdateHeight([node EXCEPT !.right = rightChild.left])
    IN  UpdateHeight([rightChild EXCEPT !.left = node2])

\* One entry of the log of balance(): the rotation made, the subtree it was
\* made on and the subtree it left.
Rotation(kind, before, after) ==
    [kind |-> kind, before |-> before, after |-> after]

\* balance taking its left-right branch on a tie as well:
\* height(node->left->right) >= height(node->left->left).
balance_doubleOnTie(node) ==
    IF node = nullptr
    THEN [node |-> node, rotations |-> <<>>, ub |-> FALSE]
    ELSE
    LET balanceFactor == height(node.left) - height(node.right) IN
    IF balanceFactor > 1 THEN
        IF node.left = nullptr
        THEN [node |-> node, rotations |-> <<>>, ub |-> TRUE]
        ELSE IF height(node.left.right) >= height(node.left.left)
        THEN IF node.left.right = nullptr
             THEN [node |-> node, rotations |-> <<>>, ub |-> TRUE]
             ELSE LET top == RotateRight(DoubleLeftRight(node))
                  IN  [node |-> top,
                       rotations |-> <<Rotation("left-right", node, top)>>,
                       ub |-> FALSE]
        ELSE LET top == RotateRight(node)
             IN  [node |-> top,
                  rotations |-> <<Rotation("right", node, top)>>,
                  ub |-> FALSE]
    ELSE IF balanceFactor < -1 THEN
        IF node.right = nullptr
        THEN [node |-> node, rotations |-> <<>>, ub |-> TRUE]
        ELSE IF height(node.right.left) > height(node.right.right)
        THEN IF node.right.left = nullptr
             THEN [node |-> node, rotations |-> <<>>, ub |-> TRUE]
             ELSE LET top == RotateLeft(DoubleRightLeft(node))
                  IN  [node |-> top,
                       rotations |-> <<Rotation("right-left", node, top)>>,
                       ub |-> FALSE]
        ELSE LET top == RotateLeft(node)
             IN  [node |-> top,
                  rotations |-> <<Rotation("left", node, top)>>,
                  ub |-> FALSE]
    ELSE [node |-> UpdateHeight(node), rotations |-> <<>>, ub |-> FALSE]

\* void AVL::balance(TreeNode*& node).  The result is the new value of the
\* slot, the rotations made (none or one) and whether a null pointer was
\* dereferenced on the way (node->left->right with node->left null, or
\* leftRightChild->left with leftRightChild null, and their mirror images).
balance(node) ==
    IF node = nullptr
    THEN [node |-> node, rotations |-> <<>>, ub |-> FALSE]
    ELSE
    LET balanceFactor == height(node.left) - height(node.right) IN
    IF balanceFactor > 1 THEN
        IF node.left = nullptr
        THEN [node |-> node, rotations |-> <<>>, ub |-> TRUE]
        ELSE IF height(node.left.right) > height(node.left.left)
        THEN IF node.left.right = nullptr
             THEN [node |-> node, rotations |-> <<>>, ub |-> TRUE]
             ELSE LET top == RotateRight(DoubleLeftRight(node))
                  IN  [node |-> top,
                       rotations |-> <<Rotation("left-right", node, top)>>,
                       ub |-> FALSE]
        ELSE LET top == RotateRight(node)
             IN  [node |-> top,
                  rotations |-> <<Rotation("right", node, top)>>,
                  ub |-> FALSE]
    ELSE IF balanceFactor < -1 THEN
        IF node.right = nullptr
        THEN [node |-> node, rotations |-> <<>>, ub |-> TRUE]
        ELSE IF height(node.right.left) > height(node.right.right)
        THEN IF node.right.left = nullptr
             THEN [node |-> node, rotations |-> <<>>, ub |-> TRUE]
             ELSE LET top == RotateLeft(DoubleRightLeft(node))
                  IN  [node |-> top,
                       rotations |-> <<Rotation("right-left", node, top)>>,
                       ub |-> FALSE]
        ELSE LET top == RotateLeft(node)
             IN  [node |-> top,
                  rotations |-> <<Rotation("left", node, top)>>,
                  ub |-> FALSE]
    ELSE [node |-> UpdateHeight(node), rotations |-> <<>>, ub |-> FALSE]

\* The tail of insert and remove:  node->height = ...; balance(node);
\* run on the slot value `node` after a recursive call that reported `r`.
Rebalance(node, r) ==
    LET b == balance(UpdateHeight(node))
    IN  [r EXCEPT !.node = b.node,
                  !.rotations = r.rotations \o b.rotations,
                  !.ub = r.ub \/ b.ub]

\* InsertTail without its test of `inserted`.
InsertTail_always(r) == Rebalance(r.node, r)

\* The tail of insert:  if (inserted) { node->height = ...; balance(node); }
\* where r holds the slot's value and the result of the recursive call.
InsertTail(r) == IF r.ret THEN Rebalance(r.node, r) ELSE r

\* RemoveTail without its test of `removed`.
RemoveTail_always(r) ==
    IF r.node # nullptr THEN Rebalance(r.node, r) ELSE r

\* The tail of remove:  if (removed && node) { node->height = ...;
\* balance(node); }
RemoveTail(r) ==
    IF r.ret /\ r.node # nullptr THEN Rebalance(r.node, r) ELSE r

\* Unlink forgetting the right child of the node it deletes.
Unlink_dropsChild(node) ==
    IF node.left = nullptr THEN nullptr ELSE node.left

\* The two unlinking cases of remove: a node without a left child is
\* replaced by its right child, a node with a left child and without a
\* right child by its left child; the node itself is deleted.
Unlink(node) == IF node.left = nullptr THEN node.right ELSE node.left

\* bool AVL::insert(TreeNode*& node, const T& value)
RECURSIVE insert(_, _)
insert(node, value) ==
    IF node = nullptr
    THEN [node |-> TreeNode(value), ret |-> TRUE, rotations |-> <<>>,
          inner |-> <<>>, ub |-> FALSE]
    ELSE IF value = node.data
    THEN [node |-> node, ret |-> FALSE, rotations |-> <<>>,
          inner |-> <<>>, ub |-> FALSE]
    ELSE
    LET r == IF value < node.data
             THEN LET c == insert(node.left, value)
                  IN  [c EXCEPT !.node = [node EXCEPT !.left = c.node]]
             ELSE LET c == insert(node.right, value)
                  IN  [c EXCEPT !.node = [node EXCEPT !.right = c.node]]
    IN  InsertTail(r)

\* min without its loop: it returns the node it is called on.
min_noLoop(node) == node

\* TreeNode* AVL::TreeNode::min()
RECURSIVE min(_)
min(node) == IF node.left # nullptr THEN min(node.left) ELSE node

\* TreeNode* AVL::TreeNode::max()
RECURSIVE TreeNode_max(_)
TreeNode_max(node) == IF node.right # nullptr THEN TreeNode_max(node.right) ELSE node

\* One entry of the log of remove(): the inner call of the two-children
\* case, remove(node->right, successor->data), whose result the code drops.
InnerCall(value, before, r) ==
    [value |-> value, before |-> before, after |-> r.node, ret |-> r.ret]

\* bool AVL::remove(TreeNode*& node, const T& value)
\* In the two-children case the inner call is handed a reference to
\* successor->data, which dies with the successor; every frame reads value
\* only before it recurses or deletes, so the call acts as on a copy.
RECURSIVE remove(_, _)
remove(node, value) ==
    IF node = nullptr
    THEN [node |-> node, ret |-> FALSE, rotations |-> <<>>,
          inner |-> <<>>, ub |-> FALSE]
    ELSE
    LET r ==
        IF value < node.data
        THEN LET c == remove(node.left, value)
             IN  [c EXCEPT !.node = [node EXCEPT !.left = c.node]]
        ELSE IF value > node.data
        THEN LET c == remove(node.right, value)
             IN  [c EXCEPT !.node = [node EXCEPT !.right = c.node]]
        ELSE IF node.left = nullptr \/ node.right = nullptr
        THEN [node |-> Unlink(node), ret |-> TRUE, rotations |-> <<>>,
              inner |-> <<>>, ub |-> FALSE]
        ELSE LET successor == min(node.right)
                 c == remove(node.right, successor.data)
             IN  [node |-> [node EXCEPT !.data = successor.data,
                                        !.right = c.node],
                  ret |-> TRUE,
                  rotations |-> c.rotations,
                  inner |-> <<InnerCall(successor.data, node.right, c)>>
                            \o c.inner,
                  ub |-> c.ub]
    IN  RemoveTail(r)

\* contain descending to the wrong side.
RECURSIVE contain_wrongSide(_, _)
contain_wrongSide(node, value) ==
    IF node = nullptr THEN FALSE
    ELSE IF value = node.data THEN TRUE
    ELSE IF value > node.data THEN contain_wrongSide(node.left, value)
    ELSE contain_wrongSide(node.right, value)

\* bool AVL::contain(const TreeNode* const node, const T& value) const
RECURSIVE contain(_, _)
contain(node, value) ==
    IF node = nullptr THEN FALSE
    ELSE IF value = node.data THEN TRUE
    ELSE IF value < node.data THEN contain(node.left, value)
    ELSE contain(node.right, value)

\* void AVL::in_order(const TreeNode* const node, std::vector<T>& result)
RECURSIVE in_order(_)
in_order(node) ==
    IF node = nullptr THEN <<>>
    ELSE in_order(node.left) \o <<node.data>> \o in_order(node.right)

\* void AVL::pre_order(const TreeNode* const node, std::vector<T>& result)
RECURSIVE pre_order(_)
pre_order(node) ==
    IF node = nullptr THEN <<>>
    ELSE <<node.data>> \o pre_order(node.left) \o pre_order(node.right)

\* void AVL::post_order(const TreeNode* const node, std::vector<T>& result)
RECURSIVE post_order(_)
post_order(node) ==
    IF node = nullptr THEN <<>>
    ELSE post_order(node.left) \o post_order(node.right) \o <<node.data>>

\* std::pair<bool, int> AVL::is_balanced(TreeNode* node) const
RECURSIVE is_balanced_pair(_)
is_balanced_pair(node) ==
    IF node = nullptr THEN [first |-> TRUE, second |-> -1]
    ELSE LET left  == is_balanced_pair(node.left)
             right == is_balanced_pair(node.right)
         IN  [first  |-> left.first /\ right.first
                         /\ abs(left.second - right.second) <= 1,
              second |-> 1 + max(left.second, right.second)]

\* bool AVL::is_balanced() const, on the tree `node`
is_balanced(node) == is_balanced_pair(node).first

-----------------------------------------------------------------------------
\* The record of one public call.
Call(name, value, r) ==
    [op |-> name, arg |-> value, ret |-> r.ret, rotations |-> r.rotations,
     inner |-> r.inner, ub |-> r.ub]

NoCall ==
    [op |-> "none", arg |-> 0, ret |-> FALSE, rotations |-> <<>>,
     inner |-> <<>>, ub |-> FALSE]

\* AVL::AVL() : root(nullptr)
Init ==
    /\ root = nullptr
    /\ last = NoCall
    /\ S = {}
    /\ script = <<>>
    /\ done = <<>>
    /\ draining = FALSE

\* bool AVL::insert(const T& value)
AVL_insert(value) ==
    LET r == insert(root, value) IN
    /\ ~last.ub
    /\ root' = r.node
    /\ last' = Call("insert", value, r)
    /\ S' = S \cup {value}

\* bool AVL::remove(const T& value)
AVL_remove(value) ==
    LET r == remove(root, value) IN
    /\ ~last.ub
    /\ root' = r.node
    /\ last' = Call("remove", value, r)
    /\ S' = S \ {value}

Next ==
    \/ \E value \in Values :
          AVL_insert(value) /\ UNCHANGED <<script, done, draining>>
    \/ \E value \in Values :
          AVL_remove(value) /\ UNCHANGED <<script, done, draining>>

Spec == Init /\ [][Next]_vars

-----------------------------------------------------------------------------
(***************************************************************************)
(* Scripted runs: a fixed sequence of public calls made on a fresh tree,   *)
(* with values 10, 20, ..., as in the scenarios of the documentation.      *)
(***************************************************************************)
Inserts(values) ==
    [i \in 1..Len(values) |-> [op |-> "insert", arg |-> values[i]]]

Removes(values) ==
    [i \in 1..Len(values) |-> [op |-> "remove", arg |-> values[i]]]

\* Every sequence of three distinct scenario values.
Triples ==
    {t \in ScenarioValues \X ScenarioValues \X ScenarioValues :
        t[1] # t[2] /\ t[1] # t[3] /\ t[2] # t[3]}

\* The seven-node tree of the removal scenario.
SevenValues == <<50, 30, 70, 20, 40, 60, 80>>

Scripts ==
    {Inserts(t) : t \in Triples}
    \cup {Inserts(SevenValues) \o Removes(<<v>>) : v \in ScenarioValues}

ScriptInit ==
    /\ root = nullptr
    /\ last = NoCall
    /\ S = {}
    /\ script \in Scripts
    /\ done = <<>>
    /\ draining = FALSE

\* What a scripted run records of a call: the call and the tree it left.
Made == [call |-> last', root |-> root']

ScriptInsert ==
    /\ script # <<>>
    /\ Head(script).op = "insert"
    /\ AVL_insert(Head(script).arg)
    /\ script' = Tail(script)
    /\ done' = Append(done, Made)
    /\ UNCHANGED draining

ScriptRemove ==
    /\ script # <<>>
    /\ Head(script).op = "remove"
    /\ AVL_remove(Head(script).arg)
    /\ script' = Tail(script)
    /\ done' = Append(done, Made)
    /\ UNCHANGED draining

ScriptNext == ScriptInsert \/ ScriptRemove

SpecScript == ScriptInit /\ [][ScriptNext]_vars

-----------------------------------------------------------------------------
(***************************************************************************)
(* Draining runs: any calls build a tree; from some moment on the run only *)
(* removes, once each and in any order, the elements the tree then holds.  *)
(* S is set to those elements when the draining begins, and each remove    *)
(* takes its argument out of S.                                            *)
(***************************************************************************)
DrainBuildInsert ==
    /\ ~draining
    /\ \E value \in DrainValues : AVL_insert(value)
    /\ UNCHANGED <<script, done, draining>>

DrainBuildRemove ==
    /\ ~draining
    /\ \E value \in DrainValues : AVL_remove(value)
    /\ UNCHANGED <<script, done, draining>>

DrainStart ==
    /\ ~draining
    /\ ~last.ub
    /\ draining' = TRUE
    /\ S' = Range(in_order(root))
    /\ last' = NoCall
    /\ UNCHANGED <<root, script, done>>

DrainRemove ==
    /\ draining
    /\ \E value \in S : AVL_remove(value)
    /\ UNCHANGED <<script, done, draining>>

DrainNext ==
    DrainBuildInsert \/ DrainBuildRemove \/ DrainStart \/ DrainRemove

SpecDrain == Init /\ [][DrainNext]_vars

-----------------------------------------------------------------------------
(***************************************************************************)
(* Vocabulary of the properties.                                           *)
(***************************************************************************)
StrictlyAscending(seq) == \A i \in 1..(Len(seq) - 1) : seq[i] < seq[i + 1]

\* The values held in the nodes of a tree.
RECURSIVE Elems(_)
Elems(node) ==
    IF node = nullptr THEN {}
    ELSE Elems(node.left) \cup {node.data} \cup Elems(node.right)

\* The number of nodes of a tree.
RECURSIVE Size(_)
Size(node) ==
    IF node = nullptr THEN 0 ELSE Size(node.left) + 1 + Size(node.right)

\* The height of a tree computed from its shape, -1 for the empty tree.
RECURSIVE ActualHeight(_)
ActualHeight(node) ==
    IF node = nullptr THEN -1
    ELSE 1 + max(ActualHeight(node.left), ActualHeight(node.right))

\* The subtrees of a tree, itself included, nullptr excluded.
RECURSIVE Nodes(_)
Nodes(node) ==
    IF node = nullptr THEN {}
    ELSE Nodes(node.left) \cup {node} \cup Nodes(node.right)

\* Every node's subtrees differ in actual height by at most 1.
AVLBalanced(node) ==
    \A n \in Nodes(node) :
        abs(ActualHeight(n.left) - ActualHeight(n.right)) <= 1

\* Every node separates the values of its left and right subtrees.
IsBST(node) ==
    \A n \in Nodes(node) :
        /\ \A x \in Elems(n.left) : x < n.data
        /\ \A x \in Elems(n.right) : x > n.data

\* The node of a search tree that holds value, nullptr if none does.
RECURSIVE Find(_, _)
Find(node, value) ==
    IF node = nullptr THEN nullptr
    ELSE IF value = node.data THEN node
    ELSE IF value < node.data THEN Find(node.left, value)
    ELSE Find(node.right, value)

-----------------------------------------------------------------------------
\* C1: after every insert and remove call the tree is AVL-balanced: at every
\* node the actual heights of the two subtrees differ by at most 1, and
\* is_balanced() returns true.
C1_AVLInvariant == AVLBalanced(root) /\ is_balanced(root)

\* C2: after every insert and remove call every node's left subtree holds
\* only smaller values and its right subtree only greater ones, so that
\* in_order() is strictly ascending and holds no value twice.
C2_BSTInvariant ==
    /\ IsBST(root)
    /\ StrictlyAscending(in_order(root))
    /\ Len(in_order(root)) = Cardinality(Range(in_order(root)))

C2_Witness ==
    /\ last.op = "remove" /\ last.ret /\ last.rotations # <<>>
    /\ Size(root) >= 5

\* C3: the tree implements the abstract set S: insert(v) returns true
\* exactly when v was not in S, remove(v) returns true exactly when v was in
\* S, and after the call in_order() lists exactly the elements of S (which
\* gained, resp. lost, v), each once.
C3_SetRefinement ==
    [][ /\ last'.op = "insert" => (last'.ret <=> last'.arg \notin S)
        /\ last'.op = "remove" => (last'.ret <=> last'.arg \in S)
        /\ Range(in_order(root')) = S'
        /\ Len(in_order(root')) = Cardinality(S') ]_vars

C3_Witness ==
    /\ last.op = "remove" /\ last.ret /\ last.inner # <<>>
    /\ Cardinality(S) >= 4
    /\ in_order(root) # <<>>

\* C4: contain(x) is true exactly for the elements of in_order(); it is true
\* for x right after insert(x) returned true, false for x right after
\* remove(x) returned true, and false for every x on the empty tree.
C4_MembershipConsistency ==
    /\ \A x \in Values : contain(root, x) <=> x \in Range(in_order(root))
    /\ (last.op = "insert" /\ last.ret) => contain(root, last.arg)
    /\ (last.op = "remove" /\ last.ret) => ~contain(root, last.arg)
    /\ root = nullptr => \A x \in Values : ~contain(root, x)

C4_Witness ==
    /\ last.op = "insert" /\ last.ret /\ last.rotations # <<>>
    /\ Size(root) >= 4
    /\ contain(root, last.arg)
    /\ \E x \in Values : ~contain(root, x)

\* C5: insert of a value that is present returns false and leaves the tree
\* as it was: shape, values and every stored height, hence the three
\* traversals.
C5_DuplicateInsertNoOp ==
    [][ (last'.op = "insert" /\ last'.arg \in Elems(root)) =>
            /\ last'.ret = FALSE
            /\ root' = root
            /\ last'.rotations = <<>>
            /\ in_order(root') = in_order(root)
            /\ pre_order(root') = pre_order(root)
            /\ post_order(root') = post_order(root) ]_vars

C5_Witness ==
    /\ last.op = "insert" /\ ~last.ret
    /\ last.arg \in Elems(root)
    /\ last.arg # root.data
    /\ Size(root) >= 4

\* C6: remove of a value that is absent returns false and leaves the tree
\* as it was (shape, values, stored heights, no rotation), and so does a
\* second remove of the same value right after it.
C6_AbsentRemoveNoOp ==
    [][ (last'.op = "remove" /\ last'.arg \notin Elems(root)) =>
            /\ last'.ret = FALSE
            /\ root' = root
            /\ last'.rotations = <<>>
            /\ LET again == remove(root', last'.arg)
               IN  /\ again.ret = FALSE
                   /\ again.node = root
                   /\ again.rotations = <<>> ]_vars

C6_Witness ==
    /\ last.op = "remove" /\ ~last.ret
    /\ last.arg \notin Elems(root)
    /\ Size(root) >= 4

\* Every node's stored height is 1 + the greater of its children's stored
\* heights, a missing child counting as -1.
HeightCorrect(node) ==
    \A n \in Nodes(node) :
        n.height = 1 + max(height(n.left), height(n.right))

\* C7: after every insert and remove call every node's stored height equals
\* 1 + max(height(left), height(right)).
C7_HeightCorrectness == HeightCorrect(root)

\* C8 as stated: every node's stored height is at least 1.
C8_HeightAtLeastOne == \A n \in Nodes(root) : n.height >= 1

\* C8 as amended: every node's stored height is at least 0 (and height()
\* reports -1 for a missing subtree only).
C8_HeightNonNegative ==
    /\ \A n \in Nodes(root) : n.height >= 0 /\ height(n) = n.height
    /\ height(nullptr) = -1

C8_Witness ==
    /\ last.op # "none"
    /\ \E n \in Nodes(root) : n.height = 0
    /\ \E n \in Nodes(root) : n.height = 1 /\ n.left = nullptr
                              /\ n.right = nullptr

\* C9: remove of a value held by a node with two children returns true,
\* takes exactly that value out of in_order(), leaves the in-order successor
\* in the tree exactly once, and leaves a balanced tree balanced.
C9_TwoChildrenRemove ==
    [][ LET n == Find(root, last'.arg) IN
        (/\ last'.op = "remove"
         /\ IsBST(root)
         /\ n # nullptr
         /\ n.left # nullptr /\ n.right # nullptr) =>
            /\ last'.ret = TRUE
            /\ in_order(root') =
                 SelectSeq(in_order(root), LAMBDA x : x # last'.arg)
            /\ Len(SelectSeq(in_order(root'),
                             LAMBDA x : x = min(n.right).data)) = 1
            /\ (is_balanced(root) => is_balanced(root')) ]_vars

\* The scripted run is over and was: insert a, insert b, insert c.
RanInserts(a, b, c) ==
    /\ script = <<>>
    /\ Len(done) = 3
    /\ \A i \in 1..3 : done[i].call.op = "insert"
    /\ done[1].call.arg = a /\ done[2].call.arg = b /\ done[3].call.arg = c

\* All rotations of a scripted run, in the order they were made.
RECURSIVE RotationsOf(_)
RotationsOf(calls) ==
    IF calls = <<>> THEN <<>>
    ELSE calls[1].call.rotations \o RotationsOf(Tail(calls))

\* C10: inserting a < b < c in ascending order into the empty tree makes
\* exactly one rotation, a simple left rotation at the root, and leaves
\* in_order() = [a, b, c], pre_order() = [b, a, c], root value b and a
\* balanced tree; 10, 20, 30 is one such triple.
C10_AscendingTriple ==
    \A a, b, c \in ScenarioValues :
        (a < b /\ b < c /\ RanInserts(a, b, c)) =>
            /\ Len(RotationsOf(done)) = 1
            /\ RotationsOf(done)[1].kind = "left"
            /\ \E i \in 1..3 :
                 /\ done[i].call.rotations # <<>>
                 /\ done[i].call.rotations[1].after = done[i].root
            /\ in_order(root) = <<a, b, c>>
            /\ pre_order(root) = <<b, a, c>>
            /\ root.data = b
            /\ is_balanced(root)

C10_Witness ==
    /\ RanInserts(10, 20, 30)
    /\ pre_order(root) = <<20, 10, 30>>
    /\ Len(RotationsOf(done)) = 1

\* C11: inserting 30, 10, 20 in that order into the empty tree makes a
\* left-right double rotation and leaves pre_order() = [20, 10, 30].
C11_LeftRightScenario ==
    RanInserts(30, 10, 20) =>
        /\ \E i \in 1..Len(RotationsOf(done)) :
             RotationsOf(done)[i].kind = "left-right"
        /\ pre_order(root) = <<20, 10, 30>>

\* C12: from any reachable tree, removing each of its elements once, in any
\* order, makes every one of these remove calls return true, and ends in
\* the empty tree: root is null, in_order() is empty and contain(x) is
\* false for every x.
C12_DrainToEmpty ==
    draining =>
        /\ last.op = "remove" => last.ret
        /\ S = {} => /\ root = nullptr
                     /\ in_order(root) = <<>>
                     /\ \A x \in DrainValues : ~contain(root, x)

C12_Witness ==
    /\ draining
    /\ last.op = "remove" /\ last.ret /\ last.arg \in DrainValues
    /\ S = {}
    /\ root = nullptr

\* The stored height of node n is 1 + the greater of its children's stored
\* heights.
HeightLocal(n) == n.height = 1 + max(height(n.left), height(n.right))

\* C13: after balance() has rotated at a node, every node whose children the
\* rotation changed stores 1 + max of its children's stored heights: the new
\* top and the former node, and in a double rotation also the former child
\* that went below the promoted grandchild.
C13_HeightsAfterRotation ==
    \A i \in 1..Len(last.rotations) :
        LET rot == last.rotations[i]
            top == rot.after
        IN  /\ HeightLocal(top)
            /\ rot.kind \in {"right", "left-right", "right-left"} =>
                   HeightLocal(top.right)
            /\ rot.kind \in {"left", "left-right", "right-left"} =>
                   HeightLocal(top.left)

\* C14: balance() rotates at a node only if the actual heights of the node's
\* two subtrees differ by more than 1; otherwise the shape stays as it is.
C14_RotatesOnlyWhenNeeded ==
    \A i \in 1..Len(last.rotations) :
        LET node == last.rotations[i].before
        IN  abs(ActualHeight(node.left) - ActualHeight(node.right)) > 1

\* C15: balance() never dereferences a missing node: no call has done so,
\* and wherever balance() rotated, a stored balance factor above 1 came with
\* a left child and a successful test height(left.right) > height(left.left)
\* with a left.right, and symmetrically below -1 with the right child and
\* right.left.
C15_NoNullDereference ==
    /\ ~last.ub
    /\ \A i \in 1..Len(last.rotations) :
        LET node == last.rotations[i].before
            balanceFactor == height(node.left) - height(node.right)
        IN  /\ balanceFactor > 1 =>
                 /\ node.left # nullptr
                 /\ height(node.left.right) > height(node.left.left) =>
                        node.left.right # nullptr
            /\ balanceFactor < -1 =>
                 /\ node.right # nullptr
                 /\ height(node.right.left) > height(node.right.right) =>
                        node.right.left # nullptr

C15_Witness ==
    /\ ~last.ub
    /\ \E i \in 1..Len(last.rotations) :
         last.rotations[i].kind = "left-right"
    /\ \E i \in 1..Len(last.rotations) :
         last.rotations[i].kind = "left"

\* C16: every node's stored height is at least the actual height of the
\* subtree rooted at it.
C16_HeightNeverUnderestimates ==
    \A n \in Nodes(root) : n.height >= ActualHeight(n)

C16_Witness ==
    /\ last.rotations # <<>>
    /\ \E n \in Nodes(root) : n.height > ActualHeight(n) /\ n.left # nullptr
    /\ \E n \in Nodes(root) : n.height = ActualHeight(n) /\ n.left # nullptr

\* C17: in the two-children case of remove, the inner call
\* remove(node->right, successor->data) returns true and takes exactly one
\* node, the successor, out of the right subtree.
C17_InnerRemoveSucceeds ==
    \A i \in 1..Len(last.inner) :
        LET c == last.inner[i]
        IN  /\ c.ret = TRUE
            /\ Size(c.after) = Size(c.before) - 1
            /\ Elems(c.after) = Elems(c.before) \ {c.value}
            /\ c.value \in Elems(c.before)

C17_Witness ==
    /\ last.op = "remove" /\ last.ret
    /\ Len(last.inner) = 1
    /\ Size(last.inner[1].before) >= 3
    /\ last.inner[1].ret

=============================================================================
